---------------------------- MODULE Spec2Model ----------------------------
(***************************************************************************)
(* Model of src/scrapper.py: OliveYoungManualScraper and its main block.   *)
(*                                                                         *)
(* Text is a sequence of one-token strings, so that get_text(strip=True)   *)
(* and str.startswith are computed rather than assumed.  An optional       *)
(* Python value is a sequence of length 0 (None / missing key) or 1.       *)
(***************************************************************************)
EXTENDS Integers, Sequences, FiniteSets, TLC

VARIABLES
    pc,                  \* position of the main thread
    page_num,            \* loop variable of scrape_multiple_pages
    all_products,        \* accumulator of scrape_multiple_pages
    sel,                 \* index into next_selectors of the automatic advance
    next_clicked,        \* flag of the automatic advance
    foundations,         \* optional: return value of scrape_multiple_pages
    written,             \* optional: the list save_to_csv wrote
    navigated,           \* urls passed to driver.get, in order
    closeCount,          \* number of calls of driver.quit
    scrapes,             \* history: list returned by every completed page scrape
    lastPage,            \* history: document read by the last page scrape
    extracted,           \* history: (container index, extractor result) of the last scrape
    interrupted,         \* history: a KeyboardInterrupt has been delivered
    actedAfterInterrupt, \* history: a click, scrape or prompt followed an interrupt
    actedAfterEmpty,     \* history: a click, scrape or prompt followed an empty scrape
    scrapeRaised,        \* history: a page scrape raised
    advClicked,          \* history: a candidate was clicked in the current advance
    advClickedAgain      \* history: a second candidate was clicked in it

vars == <<pc, page_num, all_products, sel, next_clicked, foundations, written,
          navigated, closeCount, scrapes, lastPage, extracted, interrupted,
          actedAfterInterrupt, actedAfterEmpty, scrapeRaised, advClicked,
          advClickedAgain>>

---------------------------------------------------------------------------
(* Values *)

None == <<>>
Some(x) == <<x>>

\* bound: number of containers of the large listing page
NumBig == 200

\* `if i >= 50` in scrape_current_page
ProductCap == 50

\* scraper.scrape_multiple_pages(max_pages=5)
max_pages == 5

base_url == <<"https://global.oliveyoung.com">>

IsSpace(c) == c \in {" ", "\t", "\n"}

RECURSIVE LStrip(_)
LStrip(s) == IF s = <<>> THEN s
             ELSE IF IsSpace(Head(s)) THEN LStrip(Tail(s)) ELSE s

RECURSIVE RStrip(_)
RStrip(s) == IF s = <<>> THEN s
             ELSE IF IsSpace(s[Len(s)]) THEN RStrip(SubSeq(s, 1, Len(s) - 1)) ELSE s

\* element.get_text(strip=True) of an element holding one text node
get_text(element) == RStrip(LStrip(element.text))

\* str.startswith
startswith(s, prefix) ==
    /\ Len(s) >= Len(prefix)
    /\ SubSeq(s, 1, Len(prefix)) = prefix

\* truthiness of an optional string: None and '' are falsy
Truthy(opt) == opt # None /\ opt[1] # <<>>

\* `a or b` on bs4 Tags: a Tag is truthy whatever its contents
OrTag(a, b) == IF a # None THEN a ELSE b

\* `a or b` on optional strings
OrStr(a, b) == IF Truthy(a) THEN a ELSE b

\* `a or b` on lists
OrList(a, b) == IF a # <<>> THEN a ELSE b

---------------------------------------------------------------------------
(* Markup: a product container answers select_one for each selector the   *)
(* extractor uses with an optional element.                                *)

Selectors == {
    ".unit-desc .unit-btn", ".unit-desc a", "[class*=name]", ".unit-desc",
    "[class*=brand]",
    "[class*=price]", ".unit-price", "[class*=cost]",
    "[class*=original]", "[class*=regular]", "[class*=before]",
    "[class*=rating]", "[class*=star]", "[class*=score]",
    "[class*=review]",
    ".unit-thumb a", "a[href*=product]",
    ".unit-thumb img", "img",
    "[class*=discount], [class*=sale]",
    "[class*=stock], [class*=available]",
    "input[name=prdtNo]" }

Attrs == {"href", "src", "data-src", "data-lazy-src", "value"}

\* an element with text and attributes
El(text, attrs) ==
    [text |-> text,
     attr |-> [a \in Attrs |-> IF a \in DOMAIN attrs THEN Some(attrs[a]) ELSE None]]

NoAttrs == [a \in {} |-> <<>>]

\* a container in which exactly the selectors of `matches` match
Container(matches, malformed) ==
    [match |-> [s \in Selectors |->
                   IF s \in DOMAIN matches THEN Some(matches[s]) ELSE None],
     malformed |-> malformed]

select_one(container, selector) == container.match[selector]

get(element, a) == element.attr[a]

Num(i) == ToString(i)

\* 1: every field present, name in the first selector, padded with whitespace
ShapeFull(i) == Container(
    (".unit-desc .unit-btn" :> El(<<" ", "P", Num(i), "\n">>, NoAttrs))
    @@ (".unit-desc a" :> El(<<"P", Num(i)>>, ("href" :> <<"/", "d", Num(i)>>)))
    @@ (".unit-desc" :> El(<<"B", " ", "P", Num(i)>>, NoAttrs))
    @@ ("[class*=brand]" :> El(<<"B">>, NoAttrs))
    @@ ("[class*=price]" :> El(<<"$", Num(i)>>, NoAttrs))
    @@ (".unit-price" :> El(<<"$", Num(i)>>, NoAttrs))
    @@ ("[class*=original]" :> El(<<"$", "9">>, NoAttrs))
    @@ ("[class*=rating]" :> El(<<"4">>, NoAttrs))
    @@ ("[class*=review]" :> El(<<"(", "7", ")">>, NoAttrs))
    @@ (".unit-thumb a" :> El(<<>>, ("href" :> <<"h", "t", "t", "p", ":", "x", Num(i)>>)))
    @@ (".unit-thumb img" :> El(<<>>, ("src" :> <<"s", Num(i)>>)))
    @@ ("img" :> El(<<>>, ("src" :> <<"s", Num(i)>>)))
    @@ ("[class*=discount], [class*=sale]" :> El(<<"1", "0", "%">>, NoAttrs))
    @@ ("input[name=prdtNo]" :> El(<<>>, ("value" :> <<"A", Num(i)>>))),
    FALSE)

\* 2: name only through '.unit-desc a', root-relative link, lazy-loaded image
ShapeDescLink(i) == Container(
    (".unit-desc a" :> El(<<"Q", Num(i)>>, ("href" :> <<"/", "q", Num(i)>>)))
    @@ (".unit-desc" :> El(<<"Q", Num(i)>>, NoAttrs))
    @@ ("[class*=cost]" :> El(<<"$", "2">>, NoAttrs))
    @@ ("[class*=star]" :> El(<<"5">>, NoAttrs))
    @@ ("img" :> El(<<>>, ("src" :> <<>>) @@ ("data-src" :> <<"l", Num(i)>>))),
    FALSE)

\* 3: no name selector matches
ShapeNoName(i) == Container(
    ("[class*=price]" :> El(<<"$", "3">>, NoAttrs))
    @@ ("a[href*=product]" :> El(<<>>, ("href" :> <<"p", "r", "o", "d", "u", "c", "t", Num(i)>>))),
    FALSE)

\* 4: the first name selector matches an element without text, a later one has text
ShapeEmptyFirst(i) == Container(
    (".unit-desc .unit-btn" :> El(<<" ">>, NoAttrs))
    @@ (".unit-desc a" :> El(<<"R", Num(i)>>, ("href" :> <<"/", "r", Num(i)>>)))
    @@ (".unit-desc" :> El(<<"R", Num(i)>>, NoAttrs))
    @@ ("[class*=price]" :> El(<<>>, NoAttrs))
    @@ (".unit-price" :> El(<<"$", "4">>, NoAttrs)),
    FALSE)

\* 5: name through '[class*="name"]', relative link, stock element, deferred image
ShapeNameClass(i) == Container(
    ("[class*=name]" :> El(<<"S", Num(i)>>, NoAttrs))
    @@ ("a[href*=product]" :> El(<<>>, ("href" :> <<"p", "r", "o", "d", "u", "c", "t", Num(i)>>)))
    @@ ("[class*=score]" :> El(<<"3">>, NoAttrs))
    @@ ("[class*=regular]" :> El(<<"$", "8">>, NoAttrs))
    @@ ("img" :> El(<<>>, ("data-lazy-src" :> <<"z", Num(i)>>)))
    @@ ("[class*=stock], [class*=available]" :> El(<<"S", "o", "l", "d">>, NoAttrs)),
    FALSE)

\* 6: name through '.unit-desc' alone, no link
ShapeDescOnly(i) == Container(
    (".unit-desc" :> El(<<"T", Num(i)>>, NoAttrs))
    @@ ("[class*=before]" :> El(<<"$", "7">>, NoAttrs)),
    FALSE)

\* 7: markup on which the extraction raises
ShapeMalformed(i) == Container(
    (".unit-desc" :> El(<<"U", Num(i)>>, NoAttrs)), TRUE)

\* a listing page answers soup.select for the three container selectors
Page(primary, prdt_unit, wrap) ==
    [primary |-> primary, prdt_unit |-> prdt_unit, wrap |-> wrap]

PageMix == Page(<<>>,
                <<ShapeFull(1), ShapeDescLink(2), ShapeNoName(3),
                  ShapeEmptyFirst(4), ShapeNameClass(5), ShapeMalformed(6)>>,
                <<>>)

PageBig == Page([i \in 1..NumBig |->
                    IF i % 2 = 1 THEN ShapeFull(i) ELSE ShapeDescOnly(i)],
                <<>>, <<>>)

PageNoName == Page(<<>>, <<>>, <<ShapeNoName(1), ShapeEmptyFirst(2)>>)

PageEmpty == Page(<<>>, <<>>, <<>>)

Pages == [mix |-> PageMix, big |-> PageBig, noname |-> PageNoName, empty |-> PageEmpty]

PageIds == DOMAIN Pages

---------------------------------------------------------------------------
(* extract_product_info *)

name_selectors == <<".unit-desc .unit-btn", ".unit-desc a", "[class*=name]", ".unit-desc">>
price_selectors == <<"[class*=price]", ".unit-price", "[class*=cost]">>
original_price_selectors == <<"[class*=original]", "[class*=regular]", "[class*=before]">>
rating_selectors == <<"[class*=rating]", "[class*=star]", "[class*=score]">>
link_selectors == <<".unit-thumb a", ".unit-desc a", "a[href*=product]">>
img_selectors == <<".unit-thumb img", "img">>

\* container.select_one(s1) or container.select_one(s2) or ...
RECURSIVE FirstMatch(_, _)
FirstMatch(container, selectors) ==
    IF selectors = <<>> THEN None
    ELSE OrTag(select_one(container, Head(selectors)),
               FirstMatch(container, Tail(selectors)))

\* `element.get_text(strip=True) if element else None`
TextOrNone(element) == IF element # None THEN Some(get_text(element[1])) ELSE None

\* product['name'] is set only when a name element was found
NameOf(container) == TextOrNone(FirstMatch(container, name_selectors))

\* normalisation of the product link
UrlOf(container) ==
    LET link_element == FirstMatch(container, link_selectors)
        href == IF link_element # None THEN get(link_element[1], "href") ELSE None
    IN  IF ~Truthy(href) THEN None
        ELSE IF startswith(href[1], <<"h", "t", "t", "p">>) THEN href
        ELSE IF startswith(href[1], <<"/">>) THEN Some(base_url \o href[1])
        ELSE Some(base_url \o <<"/">> \o href[1])

\* src or data-src or data-lazy-src of the image element
ImageUrlOf(container) ==
    LET img_element == FirstMatch(container, img_selectors)
    IN  IF img_element = None THEN None
        ELSE OrStr(get(img_element[1], "src"),
                   OrStr(get(img_element[1], "data-src"),
                         get(img_element[1], "data-lazy-src")))

StockStatusOf(container) ==
    LET stock_element == select_one(container, "[class*=stock], [class*=available]")
    IN  IF stock_element # None THEN Some(get_text(stock_element[1]))
        ELSE Some(<<"Available">>)

ProductIdOf(container) ==
    LET product_id_input == select_one(container, "input[name=prdtNo]")
    IN  IF product_id_input # None THEN get(product_id_input[1], "value") ELSE None

\* the dict built by extract_product_info (a missing key reads as None)
BuildProduct(container) ==
    [name |-> NameOf(container),
     brand |-> TextOrNone(select_one(container, "[class*=brand]")),
     price |-> TextOrNone(FirstMatch(container, price_selectors)),
     original_price |-> TextOrNone(FirstMatch(container, original_price_selectors)),
     rating |-> TextOrNone(FirstMatch(container, rating_selectors)),
     review_count |-> TextOrNone(select_one(container, "[class*=review]")),
     url |-> UrlOf(container),
     image_url |-> ImageUrlOf(container),
     discount |-> TextOrNone(select_one(container, "[class*=discount], [class*=sale]")),
     stock_status |-> StockStatusOf(container),
     product_id |-> ProductIdOf(container)]

\* mutant of ReturnIfNamed: the record is returned whatever its name
ReturnAlways(product) == Some(product)

\* `return product if product.get('name') else None`
ReturnIfNamed(product) == IF Truthy(product.name) THEN Some(product) ELSE None

\* the whole function: an exception in the body yields None
extract_product_info(container) ==
    IF container.malformed THEN None
    ELSE ReturnIfNamed(BuildProduct(container))

\* the helper the class defines for selector chains
RECURSIVE get_text_by_selectors(_, _)
get_text_by_selectors(container, selectors) ==
    IF selectors = <<>> THEN None
    ELSE LET element == select_one(container, Head(selectors))
         IN  IF element # None /\ get_text(element[1]) # <<>>
             THEN Some(get_text(element[1]))
             ELSE get_text_by_selectors(container, Tail(selectors))

---------------------------------------------------------------------------
(* scrape_current_page *)

\* the primary selector, then '.prdt-unit' or '.product-unit-wrap'
product_containers(page) ==
    IF page.primary # <<>> THEN page.primary
    ELSE OrList(page.prdt_unit, page.wrap)

\* mutant of CapReached: the cap is tested one container too late
CapReachedLate(i) == i > ProductCap

\* `if i >= 50: break`, i counted from 0
CapReached(i) == i >= ProductCap

\* `if product_data and product_data.get('name')`
Keeps(product_data) == product_data # None /\ Truthy(product_data[1].name)

\* number of iterations of `for i, container in enumerate(product_containers)`
\* that reach the extractor: the loop leaves at the first i with CapReached(i)
Iterations(containers) ==
    CHOOSE m \in 0..Len(containers) :
        /\ \A k \in 1..m : ~CapReached(k - 1)
        /\ m < Len(containers) => CapReached(m)

\* the extractor calls of the loop, in order (k is the 1-based position)
ExtractorCalls(containers) ==
    [k \in 1..Iterations(containers) |->
        [index |-> k, result |-> extract_product_info(containers[k])]]

KeptCall(call) == Keeps(call.result)

\* the list the loop builds with products.append(product_data)
AppendedProducts(calls) ==
    LET kept == SelectSeq(calls, KeptCall)
    IN  [j \in 1..Len(kept) |-> kept[j].result[1]]

scrape_current_page(page) ==
    IF product_containers(page) = <<>> THEN [products |-> <<>>, log |-> <<>>]
    ELSE LET calls == ExtractorCalls(product_containers(page))
         IN  [products |-> AppendedProducts(calls), log |-> calls]

\* scrape_current_page on each document the renderer may hold
ScrapeResults == [id \in PageIds |-> scrape_current_page(Pages[id])]

---------------------------------------------------------------------------
(* scrape_multiple_pages and the main block *)

next_selectors == <<"a[class*='next']", "button[class*='next']",
                    "[aria-label*='next']", "[title*='next']",
                    "a[class*='daum']", "button[class*='daum']">>  \* the Korean word for next, transliterated

\* lines the user may type at the directive prompt
DirectiveInputs == {"y", "n", "N", "manual", "Manual", ""}

\* str.lower on the lines of DirectiveInputs
lower(line) == CASE line = "N" -> "n"
                 [] line = "Manual" -> "manual"
                 [] OTHER -> line

\* mutant of ListExtend: the accumulator is assigned instead of extended
ListAssign(list, items) == items

\* all_products.extend(products)
ListExtend(list, items) == list \o items

\* mutant of AfterScrape: the `break` on an empty page is missing
AfterScrapeNoBreak(products, n) ==
    IF n < max_pages - 1 THEN "directive" ELSE "returned"

\* where the loop body goes after the scrape of page n (counted from 0)
AfterScrape(products, n) ==
    IF products = <<>> THEN "returned"
    ELSE IF n < max_pages - 1 THEN "directive"
    ELSE "returned"

\* mutant of AfterHandler: the browser is closed at the end of the try
\* block and of the interrupt handler, there is no finally
AfterHandlerNoFinally(kind) == IF kind = "exc" THEN "exited" ELSE "finally"

\* try / except KeyboardInterrupt / except Exception / finally of the main block
AfterHandler(kind) == "finally"

EmptySeen == scrapes # <<>> /\ scrapes[Len(scrapes)] = <<>>

\* history of an action that clicks, scrapes or prompts
Acts ==
    /\ actedAfterInterrupt' = (actedAfterInterrupt \/ interrupted)
    /\ actedAfterEmpty' = (actedAfterEmpty \/ EmptySeen)

\* KeyboardInterrupt reaching the main block
RaiseInterrupt ==
    /\ interrupted' = TRUE
    /\ pc' = "except_ki"

\* the for loop goes to its next iteration; foundations is unchanged
LoopNext ==
    /\ page_num' = page_num + 1
    /\ pc' = IF page_num + 1 < max_pages THEN "scrape" ELSE "returned"
    /\ foundations' = IF page_num + 1 < max_pages THEN foundations
                      ELSE Some(all_products)

Init ==
    /\ pc = "open"
    /\ page_num = 0
    /\ all_products = <<>>
    /\ sel = 1
    /\ next_clicked = FALSE
    /\ foundations = None
    /\ written = None
    /\ navigated = <<>>
    /\ closeCount = 0
    /\ scrapes = <<>>
    /\ lastPage = "empty"
    /\ extracted = <<>>
    /\ interrupted = FALSE
    /\ actedAfterInterrupt = FALSE
    /\ actedAfterEmpty = FALSE
    /\ scrapeRaised = FALSE
    /\ advClicked = FALSE
    /\ advClickedAgain = FALSE

\* open_website_for_manual_navigation up to the prompt: driver.get(base_url)
OpenWebsite ==
    /\ pc = "open"
    /\ \/ /\ navigated' = Append(navigated, base_url)
          /\ pc' = "start_prompt"
       \/ /\ pc' = "except_exc"
          /\ UNCHANGED navigated
    /\ UNCHANGED <<page_num, all_products, sel, next_clicked, foundations, written,
                   closeCount, scrapes, lastPage, extracted, interrupted,
                   actedAfterInterrupt, actedAfterEmpty, scrapeRaised, advClicked,
                   advClickedAgain>>

\* input("Press ENTER when ...") and the entry into scrape_multiple_pages
StartPrompt ==
    /\ pc = "start_prompt"
    /\ Acts
    /\ \/ /\ pc' = "scrape"
          /\ page_num' = 0
          /\ all_products' = <<>>
          /\ UNCHANGED interrupted
       \/ /\ RaiseInterrupt
          /\ UNCHANGED <<page_num, all_products>>
       \/ /\ pc' = "except_exc"
          /\ UNCHANGED <<page_num, all_products, interrupted>>
    /\ UNCHANGED <<sel, next_clicked, foundations, written, navigated, closeCount,
                   scrapes, lastPage, extracted, scrapeRaised, advClicked,
                   advClickedAgain>>

\* products = self.scrape_current_page(); all_products.extend(products);
\* the break on an empty page and the test for the last page
ScrapePage ==
    /\ pc = "scrape"
    /\ Acts
    /\ \/ \E id \in PageIds :
            LET r == ScrapeResults[id] IN
            /\ all_products' = ListExtend(all_products, r.products)
            /\ scrapes' = Append(scrapes, r.products)
            /\ lastPage' = id
            /\ extracted' = r.log
            /\ pc' = AfterScrape(r.products, page_num)
            /\ foundations' = IF AfterScrape(r.products, page_num) = "returned"
                              THEN Some(all_products') ELSE foundations
            /\ UNCHANGED scrapeRaised
       \/ /\ scrapeRaised' = TRUE
          /\ pc' = "except_exc"
          /\ UNCHANGED <<all_products, scrapes, lastPage, extracted, foundations>>
    /\ advClicked' = FALSE
    /\ advClickedAgain' = FALSE
    /\ UNCHANGED <<page_num, sel, next_clicked, written, navigated, closeCount,
                   interrupted>>

\* user_input = input("Continue to next page? (y/n/manual): ").lower()
Directive ==
    /\ pc = "directive"
    /\ Acts
    /\ \/ \E line \in DirectiveInputs :
            /\ IF lower(line) = "n"
               THEN /\ pc' = "returned"
                    /\ foundations' = Some(all_products)
               ELSE /\ pc' = IF lower(line) = "manual" THEN "manual_prompt" ELSE "auto"
                    /\ UNCHANGED foundations
            /\ UNCHANGED interrupted
       \/ /\ RaiseInterrupt
          /\ UNCHANGED foundations
       \/ /\ pc' = "except_exc"
          /\ UNCHANGED <<foundations, interrupted>>
    /\ sel' = 1
    /\ next_clicked' = FALSE
    /\ UNCHANGED <<page_num, all_products, written, navigated, closeCount, scrapes,
                   lastPage, extracted, scrapeRaised, advClicked,
                   advClickedAgain>>

\* input("Navigate to the next page manually, then press ENTER...")
ManualPrompt ==
    /\ pc = "manual_prompt"
    /\ Acts
    /\ \/ /\ LoopNext
          /\ UNCHANGED interrupted
       \/ /\ RaiseInterrupt
          /\ UNCHANGED <<page_num, foundations>>
       \/ /\ pc' = "except_exc"
          /\ UNCHANGED <<page_num, foundations, interrupted>>
    /\ UNCHANGED <<all_products, sel, next_clicked, written, navigated, closeCount,
                   scrapes, lastPage, extracted, scrapeRaised, advClicked,
                   advClickedAgain>>

\* history of next_button.click()
Clicks ==
    /\ Acts
    /\ advClicked' = TRUE
    /\ advClickedAgain' = (advClickedAgain \/ advClicked)

\* one iteration of `for selector in next_selectors` with its bare except
AutoTry ==
    /\ pc = "auto"
    /\ ~next_clicked
    /\ sel <= Len(next_selectors)
    /\ \/ \* find_element raises, the button is not enabled, or click() raises
          /\ sel' = sel + 1
          /\ UNCHANGED <<next_clicked, interrupted, actedAfterInterrupt,
                         actedAfterEmpty, advClicked, advClickedAgain>>
       \/ \* click(), time.sleep(3), next_clicked = True, break
          /\ Clicks
          /\ next_clicked' = TRUE
          /\ UNCHANGED <<sel, interrupted>>
       \/ \* click(), KeyboardInterrupt in time.sleep(3), caught by `except:`
          /\ Clicks
          /\ interrupted' = TRUE
          /\ sel' = sel + 1
          /\ UNCHANGED next_clicked
    /\ UNCHANGED <<pc, page_num, all_products, foundations, written, navigated,
                   closeCount, scrapes, lastPage, extracted, scrapeRaised>>

\* `if not next_clicked:` after the loop
AfterLoop ==
    /\ pc = "auto"
    /\ next_clicked \/ sel > Len(next_selectors)
    /\ IF next_clicked
       THEN LoopNext
       ELSE /\ pc' = "fallback_prompt"
            /\ UNCHANGED <<page_num, foundations>>
    /\ UNCHANGED <<all_products, sel, next_clicked, written, navigated, closeCount,
                   scrapes, lastPage, extracted, interrupted, actedAfterInterrupt,
                   actedAfterEmpty, scrapeRaised, advClicked,
                   advClickedAgain>>

\* input("Please navigate to next page manually and press ENTER...") in the
\* try block; EOFError is caught by `except Exception`
FallbackPrompt ==
    /\ pc = "fallback_prompt"
    /\ Acts
    /\ \/ /\ LoopNext
          /\ UNCHANGED interrupted
       \/ /\ RaiseInterrupt
          /\ UNCHANGED <<page_num, foundations>>
       \/ /\ pc' = "error_prompt"
          /\ UNCHANGED <<page_num, foundations, interrupted>>
    /\ UNCHANGED <<all_products, sel, next_clicked, written, navigated, closeCount,
                   scrapes, lastPage, extracted, scrapeRaised, advClicked,
                   advClickedAgain>>

\* the same prompt in the `except Exception` handler
ErrorPrompt ==
    /\ pc = "error_prompt"
    /\ Acts
    /\ \/ /\ LoopNext
          /\ UNCHANGED interrupted
       \/ /\ RaiseInterrupt
          /\ UNCHANGED <<page_num, foundations>>
       \/ /\ pc' = "except_exc"
          /\ UNCHANGED <<page_num, foundations, interrupted>>
    /\ UNCHANGED <<all_products, sel, next_clicked, written, navigated, closeCount,
                   scrapes, lastPage, extracted, scrapeRaised, advClicked,
                   advClickedAgain>>

\* `if foundations: scraper.save_to_csv(foundations)`; the writer may raise
SaveResults ==
    /\ pc = "returned"
    /\ IF foundations[1] # <<>>
       THEN \/ /\ written' = foundations
               /\ pc' = "finally"
            \/ /\ pc' = "except_exc"
               /\ UNCHANGED written
       ELSE /\ pc' = "finally"
            /\ UNCHANGED written
    /\ UNCHANGED <<page_num, all_products, sel, next_clicked, foundations, navigated,
                   closeCount, scrapes, lastPage, extracted, interrupted,
                   actedAfterInterrupt, actedAfterEmpty, scrapeRaised, advClicked,
                   advClickedAgain>>

\* except KeyboardInterrupt: print
ExceptInterrupt ==
    /\ pc = "except_ki"
    /\ pc' = AfterHandler("ki")
    /\ UNCHANGED <<page_num, all_products, sel, next_clicked, foundations, written,
                   navigated, closeCount, scrapes, lastPage, extracted, interrupted,
                   actedAfterInterrupt, actedAfterEmpty, scrapeRaised, advClicked,
                   advClickedAgain>>

\* except Exception as e: print
ExceptException ==
    /\ pc = "except_exc"
    /\ pc' = AfterHandler("exc")
    /\ UNCHANGED <<page_num, all_products, sel, next_clicked, foundations, written,
                   navigated, closeCount, scrapes, lastPage, extracted, interrupted,
                   actedAfterInterrupt, actedAfterEmpty, scrapeRaised, advClicked,
                   advClickedAgain>>

\* finally: scraper.close(), then the process exits
Finally ==
    /\ pc = "finally"
    /\ closeCount' = closeCount + 1
    /\ pc' = "exited"
    /\ UNCHANGED <<page_num, all_products, sel, next_clicked, foundations, written,
                   navigated, scrapes, lastPage, extracted, interrupted,
                   actedAfterInterrupt, actedAfterEmpty, scrapeRaised, advClicked,
                   advClickedAgain>>

Next ==
    \/ OpenWebsite
    \/ StartPrompt
    \/ ScrapePage
    \/ Directive
    \/ ManualPrompt
    \/ AutoTry
    \/ AfterLoop
    \/ FallbackPrompt
    \/ ErrorPrompt
    \/ SaveResults
    \/ ExceptInterrupt
    \/ ExceptException
    \/ Finally

Spec == Init /\ [][Next]_vars

\* every prompt is eventually answered (by a line, an interrupt or end of
\* input) and every started step of the single thread completes
FairSpec == Spec /\ WF_vars(Next)

---------------------------------------------------------------------------
(* Properties *)

RECURSIVE Flatten(_)
Flatten(lists) == IF lists = <<>> THEN <<>> ELSE Head(lists) \o Flatten(Tail(lists))

Min(a, b) == IF a <= b THEN a ELSE b

LastContainers == product_containers(Pages[lastPage])

TeardownPcs == {"except_ki", "finally", "exited"}

\* C1: the first page scrape that returns an empty list ends the run: every
\* earlier scrape was non-empty, scrape_multiple_pages has returned the
\* accumulated list, and no prompt, click or scrape follows the empty scrape.
\* With results [3 items, 0 items, ...] exactly two scrapes happen and the
\* returned list is the 3 records of page one.
C1_EmptyPageEndsRun ==
    /\ EmptySeen =>
          /\ pc \in {"returned", "except_exc", "finally", "exited"}
          /\ ~actedAfterEmpty
          /\ foundations = Some(all_products)
          /\ \A i \in 1..(Len(scrapes) - 1) : scrapes[i] # <<>>
    /\ (Len(scrapes) >= 2 /\ Len(scrapes[1]) = 3 /\ scrapes[2] = <<>>) =>
          /\ Len(scrapes) = 2
          /\ foundations = Some(scrapes[1])

C1_Witness ==
    /\ pc = "exited"
    /\ Len(scrapes) = 2
    /\ Len(scrapes[1]) = 3
    /\ scrapes[2] = <<>>
    /\ written = Some(scrapes[1])

\* C2: whenever scrape_multiple_pages has returned, its return value is the
\* concatenation of the lists returned by the page scrapes performed, in
\* page-visit order and product order, nothing dropped, duplicated or merged.
C2_ReturnIsConcatenation ==
    foundations # None => foundations[1] = Flatten(scrapes)

C2_Witness ==
    /\ foundations # None
    /\ Len(scrapes) = max_pages
    /\ scrapes[1] = scrapes[2]
    /\ scrapes[3] # scrapes[2]
    /\ \A i \in 1..Len(scrapes) : scrapes[i] # <<>>

\* C3: an exception raised by a page scrape is treated as an empty result of
\* that page and does not abort the run: the records of the earlier pages are
\* still returned by scrape_multiple_pages.
C3_PageExceptionIsEmptyResult ==
    (scrapeRaised /\ all_products # <<>>) =>
        /\ pc # "except_exc"
        /\ pc \in {"finally", "exited"} => foundations = Some(all_products)

\* C4: after an interrupt delivered during a blocking step no click, scrape
\* or prompt is performed and control is in the teardown path.
C4_InterruptAborts ==
    interrupted => (pc \in TeardownPcs /\ ~actedAfterInterrupt)

\* C5: once the renderer exists, every run eventually exits, and it has then
\* released the renderer exactly once, however the run ended.
C5_TeardownExactlyOnce ==
    /\ <>(pc = "exited")
    /\ [](pc = "exited" => closeCount = 1)
    /\ [](closeCount <= 1)

C5_Witness ==
    /\ pc = "exited"
    /\ closeCount = 1
    /\ scrapeRaised
    /\ all_products # <<>>

\* C6: a page scrape passes exactly the first min(n, 50) of the n matched
\* containers to the extractor, in document order, and no page scrape
\* returns more than 50 records.
C6_AtMostFiftyExtracted ==
    /\ Len(extracted) = Min(Len(LastContainers), 50)
    /\ \A k \in 1..Len(extracted) : extracted[k].index = k
    /\ \A i \in 1..Len(scrapes) : Len(scrapes[i]) <= 50

C6_Witness ==
    /\ lastPage = "big"
    /\ Len(LastContainers) >= 200
    /\ Len(extracted) = 50
    /\ Len(scrapes[Len(scrapes)]) = 50

NamedRecords(list) == \A i \in 1..Len(list) : Truthy(list[i].name)

\* C7: the extractor returns None for every container in which no name
\* selector yields a name and never returns a record with a null or empty
\* name; every record of every page result, of the accumulated and returned
\* list and of the list handed to the writer has a non-empty name.
C7_NamedRecordsOnly ==
    /\ \A k \in 1..Len(extracted) :
          LET container == LastContainers[extracted[k].index]
              result == extracted[k].result
          IN  /\ get_text_by_selectors(container, name_selectors) = None
                    => result = None
              /\ result # None => Truthy(result[1].name)
    /\ \A i \in 1..Len(scrapes) : NamedRecords(scrapes[i])
    /\ NamedRecords(all_products)
    /\ foundations # None => NamedRecords(foundations[1])
    /\ written # None => NamedRecords(written[1])

C7_Witness ==
    /\ lastPage = "mix"
    /\ \E k \in 1..Len(extracted) :
          /\ \A s \in 1..Len(name_selectors) :
                select_one(LastContainers[extracted[k].index], name_selectors[s]) = None
          /\ extracted[k].result = None
    /\ written # None
    /\ Len(written[1]) = 3

\* C8: every record appended to the result list that has a url had the
\* variant extractor invoked on that url, that is the renderer was navigated
\* to the url.
C8_VariantsBeforeAppend ==
    \A i \in 1..Len(all_products) :
        all_products[i].url # None =>
            \E j \in 1..Len(navigated) : navigated[j] = all_products[i].url[1]

\* C9: in an automatic advance at most one candidate is clicked, and after a
\* click the next page is scraped without a manual confirmation being asked.
C9_AutoAdvanceClicksOnce ==
    /\ ~advClickedAgain
    /\ pc \in {"fallback_prompt", "error_prompt"} => ~advClicked

\* C10: the name (and price) of an extracted container is the text of the
\* first selector of the chain whose match has non-empty text; a container
\* with such a selector yields a record.
C10_FirstNonEmptyMatch ==
    \A k \in 1..Len(extracted) :
        LET container == LastContainers[extracted[k].index]
            result == extracted[k].result
            name == get_text_by_selectors(container, name_selectors)
        IN  (~container.malformed /\ name # None) =>
                /\ result # None
                /\ result[1].name = name
                /\ result[1].price = get_text_by_selectors(container, price_selectors)

=============================================================================
